---- MODULE Spec2Model ----
(***************************************************************************)
(* Graph construction of the four model builders of                        *)
(* bingrad/inception/slim/models.py (alexnet, alexnet_v2, vgg_16, vgg_a).  *)
(*                                                                         *)
(* A build is executed statement by statement.  The state is the builder's *)
(* locals (net, logits, end_points), the graph collection the slim layers  *)
(* write their outputs to, the list of layers created so far with their    *)
(* effective keyword arguments, and the two arg-scope stacks (the one of   *)
(* inception.slim.scopes used by alexnet and the one of tf.contrib.slim    *)
(* used by the other three builders).                                      *)
(*                                                                         *)
(* Floating point hyperparameters are never computed with; they are kept   *)
(* as the literals of the source ("0.0005", "0.1", ...).                   *)
(* Tensors are [id, shape]: id is the name path of the producing op.       *)
(***************************************************************************)
EXTENDS Integers, Sequences, FiniteSets, TLC

VARIABLES phase,        \* "idle", "building", "done", "failed"
          builder,      \* the builder being executed
          args,         \* the arguments of the call
          pc,           \* index of the next statement of the builder
          oldStack,     \* arg-scope stack of inception.slim.scopes
          slimStack,    \* arg-scope stack of tf.contrib.slim
          captured,     \* the arg_sc a _*_arg_scope function returned
          end_points,   \* the end_points dict
          collection,   \* the outputs collection <sc.name>_end_points
          layers,       \* the layers created by this build, in order
          net,          \* local variable net
          logits,       \* local variable logits
          ret,          \* first component of the returned pair
          stackAtCall   \* the two stacks at the moment of the call

vars == <<phase, builder, args, pc, oldStack, slimStack, captured, end_points,
          collection, layers, net, logits, ret, stackAtCall>>

----------------------------------------------------------------------------
(* Bounds of the model and the inputs drawn at a call.                     *)

MaxBatch == 2
MaxClasses == 2
MaxCallerDepth == 1

ImageSizes == {224, 256}
Seeds == {1, 2}
KeepProbs == {"0.8"}

Builders == {"alexnet", "alexnet_v2", "vgg_16", "vgg_a"}

ArgSpace ==
  [B : 1..MaxBatch, N : 1..MaxClasses, H : ImageSizes,
   is_training : BOOLEAN, restore_logits : BOOLEAN,
   seed : Seeds, keep : KeepProbs]

----------------------------------------------------------------------------
(* Values.                                                                 *)

NoKw == [x \in {} |-> x]
NoScope == [o \in {} |-> NoKw]
NoTensor == [id |-> <<>>, shape |-> <<>>]
NoEndPoints == [k \in {} |-> NoTensor]

Tensor(id, shape) == [id |-> id, shape |-> shape]

\* inputs: a tensor of size [batch_size, height, width, channels]
InputTensor(a) == Tensor(<<"inputs">>, <<a.B, a.H, a.H, 3>>)

\* tf.constant(0)
ConstantZero == [id |-> <<"Const">>, shape |-> <<>>, value |-> 0]

----------------------------------------------------------------------------
(* Shapes of the layer operations.                                         *)

\* padding='SAME': ceil(n / stride)
SameOut(n, stride) == (n + stride - 1) \div stride

\* padding='VALID': floor((n - k) / stride) + 1, no output when k > n
ValidOut(n, k, stride) == IF n < k THEN 0 ELSE ((n - k) \div stride) + 1

OutDim(n, k, stride, padding) ==
  IF padding = "SAME" THEN SameOut(n, stride) ELSE ValidOut(n, k, stride)

RECURSIVE Product(_)
Product(s) == IF s = <<>> THEN 1 ELSE Head(s) * Product(Tail(s))

ConvShape(s, num, k, cfg) ==
  <<s[1], OutDim(s[2], k, cfg.stride, cfg.padding),
          OutDim(s[3], k, cfg.stride, cfg.padding), num>>

PoolShape(s, k, cfg) ==
  <<s[1], OutDim(s[2], k, cfg.stride, cfg.padding),
          OutDim(s[3], k, cfg.stride, cfg.padding), s[4]>>

FlattenShape(s) == <<s[1], Product(Tail(s))>>

FcShape(s, num) == [s EXCEPT ![Len(s)] = num]

ConcatShape(s1, s2, axis) == [s1 EXCEPT ![axis + 1] = s1[axis + 1] + s2[axis + 1]]

SqueezeShape(s, axes) ==
  LET keep == {i \in 1..Len(s) : (i - 1) \notin axes}
      F[i \in 0..Len(s)] ==
        IF i = 0 THEN <<>>
        ELSE IF i \in keep THEN Append(F[i - 1], s[i]) ELSE F[i - 1]
  IN F[Len(s)]

ShapeOk(s) == \A i \in 1..Len(s) : s[i] >= 1

----------------------------------------------------------------------------
(* Arg scopes.  A scope maps an operation to the keyword defaults set for  *)
(* it; the stack holds the scopes of the open with-blocks, innermost last. *)

CurrentScope(stack) == IF stack = <<>> THEN NoScope ELSE stack[Len(stack)]

ScopeGet(sc, op) == IF op \in DOMAIN sc THEN sc[op] ELSE NoKw

\* with arg_scope([ops...], **kw): a copy of the current scope in which the
\* defaults of the listed operations are updated with kw.
ScopeUpdate(sc, ops, kw) ==
  [o \in DOMAIN sc \cup ops |->
     IF o \in ops THEN kw @@ ScopeGet(sc, o) ELSE sc[o]]

EnterScope(stack, ops, kw) == Append(stack, ScopeUpdate(CurrentScope(stack), ops, kw))

\* with arg_scope(scope): the given scope is reused as it is.
ReuseScope(stack, sc) == Append(stack, sc)

\* leaving one with-block
ExitScope(stack) == SubSeq(stack, 1, Len(stack) - 1)

\* leaving n with-blocks at once (return or exception inside them)
Unwind(stack, n) == SubSeq(stack, 1, Len(stack) - n)

\* Keyword defaults of the layer functions themselves.
LibraryDefaults(op) ==
  CASE op = "ops.conv2d" ->
         [stride |-> 1, padding |-> "SAME", activation |-> "relu",
          stddev |-> "0.01", bias |-> "0.0", weight_decay |-> "0",
          batch_norm_params |-> "None", is_training |-> TRUE, restore |-> TRUE]
    [] op = "ops.fc" ->
         [activation |-> "relu", stddev |-> "0.01", bias |-> "0.0",
          weight_decay |-> "0", batch_norm_params |-> "None",
          is_training |-> TRUE, restore |-> TRUE]
    [] op = "ops.max_pool" -> [stride |-> 2, padding |-> "VALID"]
    [] op = "ops.dropout" -> [keep_prob |-> "0.5", is_training |-> TRUE]
    [] op = "slim.conv2d" ->
         [stride |-> 1, padding |-> "SAME", activation_fn |-> "relu",
          normalizer_fn |-> "None", weights_initializer |-> [kind |-> "xavier"],
          weights_regularizer |-> [kind |-> "None"],
          biases_initializer |-> [kind |-> "zeros"],
          outputs_collections |-> "None"]
    [] op = "slim.fully_connected" ->
         [activation_fn |-> "relu", normalizer_fn |-> "None",
          weights_initializer |-> [kind |-> "xavier"],
          weights_regularizer |-> [kind |-> "None"],
          biases_initializer |-> [kind |-> "zeros"],
          outputs_collections |-> "None"]
    [] op = "slim.max_pool2d" ->
         [stride |-> 2, padding |-> "VALID", outputs_collections |-> "None"]
    [] op = "slim.dropout" ->
         [keep_prob |-> "0.5", is_training |-> TRUE, outputs_collections |-> "None"]
    [] op = "slim.flatten" -> [outputs_collections |-> "None"]
    [] OTHER -> NoKw

\* Effective keyword arguments of a call: call-site keywords over the current
\* scope's defaults for the operation over the function's own defaults.
Resolve(stack, op, kw) ==
  kw @@ ScopeGet(CurrentScope(stack), op) @@ LibraryDefaults(op)

----------------------------------------------------------------------------
(* Statements of the builders.                                             *)

Ep(k) == [var |-> "ep", key |-> <<k>>]
Var(v) == [var |-> v, key |-> <<>>]

ArgScope(lib, ops, kw) == [kind |-> "arg_scope", lib |-> lib, ops |-> ops, kw |-> kw]
ArgScopeReturn(lib) == [kind |-> "arg_scope_return", lib |-> lib]
ArgScopeReuse(lib) == [kind |-> "arg_scope_reuse", lib |-> lib]
EndScope(lib) == [kind |-> "end_scope", lib |-> lib]

Layer(kind, op, name, src, dst, num, kernel, kw) ==
  [kind |-> kind, lib |-> IF kind = "repeat" \/ op \in {"slim.conv2d",
                             "slim.fully_connected", "slim.max_pool2d",
                             "slim.dropout", "slim.flatten"}
                          THEN "slim" ELSE "old",
   op |-> op, name |-> name, src |-> src, dst |-> dst,
   num |-> num, kernel |-> kernel, kw |-> kw]

Concat(id, srcs, dst) == [kind |-> "concat", id |-> id, srcs |-> srcs, dst |-> dst]
Assign(src, dst) == [kind |-> "assign", src |-> src, dst |-> dst]
Softmax(src, dst) == [kind |-> "softmax", src |-> src, dst |-> dst]
Constant(dst) == [kind |-> "constant", dst |-> dst]
Squeeze(src, dst) == [kind |-> "squeeze", src |-> src, dst |-> dst]
Convert == [kind |-> "convert"]
Return(src) == [kind |-> "return", src |-> src]

\* the is_training scope without ops.dropout in its list
AlexnetTrainingScopeNoDropout(a) ==
  ArgScope("old", {"ops.conv2d", "ops.fc", "ops.batch_norm"},
           [is_training |-> a.is_training])

\* lines 77-78
AlexnetTrainingScope(a) ==
  ArgScope("old", {"ops.conv2d", "ops.fc", "ops.batch_norm", "ops.dropout"},
           [is_training |-> a.is_training])

\* conv3_* each reading its own tower's pool2_* instead of the concatenation
AlexnetConv3Separate == <<
  Layer("conv2d", "ops.conv2d", <<"conv3_1">>, Ep("pool2_1"), Ep("conv3_1"), 192, 3,
        [bias |-> "0.0"]),
  Layer("conv2d", "ops.conv2d", <<"conv3_2">>, Ep("pool2_2"), Ep("conv3_2"), 192, 3,
        [bias |-> "0.0"]) >>

\* lines 103-104
AlexnetConv3 == <<
  Layer("conv2d", "ops.conv2d", <<"conv3_1">>, Ep("pool2"), Ep("conv3_1"), 192, 3,
        [bias |-> "0.0"]),
  Layer("conv2d", "ops.conv2d", <<"conv3_2">>, Ep("pool2"), Ep("conv3_2"), 192, 3,
        [bias |-> "0.0"]) >>

\* alexnet, lines 75-133
AlexnetProgram(a) == <<
  AlexnetTrainingScope(a),
  ArgScope("old", {"ops.conv2d", "ops.fc"},
           [weight_decay |-> "0.0005", stddev |-> "0.01", bias |-> "0.1",
            seed |-> a.seed]),
  ArgScope("old", {"ops.conv2d"}, [stride |-> 1, padding |-> "SAME"]),
  ArgScope("old", {"ops.max_pool"}, [stride |-> 2, padding |-> "VALID"]),
  Layer("conv2d", "ops.conv2d", <<"conv1_1">>, Var("inputs"), Ep("conv1_1"), 48, 11,
        [stride |-> 4, bias |-> "0.0"]),
  Layer("conv2d", "ops.conv2d", <<"conv1_2">>, Var("inputs"), Ep("conv1_2"), 48, 11,
        [stride |-> 4, bias |-> "0.0"]),
  Layer("lrn", "ops.lrn", <<"lrn1_1">>, Ep("conv1_1"), Ep("lrn1_1"), 0, 0, NoKw),
  Layer("lrn", "ops.lrn", <<"lrn1_2">>, Ep("conv1_2"), Ep("lrn1_2"), 0, 0, NoKw),
  Layer("max_pool", "ops.max_pool", <<"pool1_1">>, Ep("lrn1_1"), Ep("pool1_1"), 0, 3, NoKw),
  Layer("max_pool", "ops.max_pool", <<"pool1_2">>, Ep("lrn1_2"), Ep("pool1_2"), 0, 3, NoKw),
  Layer("conv2d", "ops.conv2d", <<"conv2_1">>, Ep("pool1_1"), Ep("conv2_1"), 128, 5, NoKw),
  Layer("conv2d", "ops.conv2d", <<"conv2_2">>, Ep("pool1_2"), Ep("conv2_2"), 128, 5, NoKw),
  Layer("lrn", "ops.lrn", <<"lrn2_1">>, Ep("conv2_1"), Ep("lrn2_1"), 0, 0, NoKw),
  Layer("lrn", "ops.lrn", <<"lrn2_2">>, Ep("conv2_2"), Ep("lrn2_2"), 0, 0, NoKw),
  Layer("max_pool", "ops.max_pool", <<"pool2_1">>, Ep("lrn2_1"), Ep("pool2_1"), 0, 3, NoKw),
  Layer("max_pool", "ops.max_pool", <<"pool2_2">>, Ep("lrn2_2"), Ep("pool2_2"), 0, 3, NoKw),
  Concat(<<"concat">>, <<Ep("pool2_1"), Ep("pool2_2")>>, Ep("pool2")) >>
  \o AlexnetConv3 \o <<
  Layer("conv2d", "ops.conv2d", <<"conv4_1">>, Ep("conv3_1"), Ep("conv4_1"), 192, 3, NoKw),
  Layer("conv2d", "ops.conv2d", <<"conv4_2">>, Ep("conv3_2"), Ep("conv4_2"), 192, 3, NoKw),
  Layer("conv2d", "ops.conv2d", <<"conv5_1">>, Ep("conv4_1"), Ep("conv5_1"), 128, 3, NoKw),
  Layer("conv2d", "ops.conv2d", <<"conv5_2">>, Ep("conv4_2"), Ep("conv5_2"), 128, 3, NoKw),
  Layer("max_pool", "ops.max_pool", <<"pool5_1">>, Ep("conv5_1"), Ep("pool5_1"), 0, 3, NoKw),
  Layer("max_pool", "ops.max_pool", <<"pool5_2">>, Ep("conv5_2"), Ep("pool5_2"), 0, 3, NoKw),
  Concat(<<"concat_1">>, <<Ep("pool5_1"), Ep("pool5_2")>>, Ep("pool5")),
  Layer("flatten", "ops.flatten", <<"flatten">>, Ep("pool5"), Ep("pool5"), 0, 0, NoKw),
  Layer("fc", "ops.fc", <<"fc6">>, Ep("pool5"), Ep("fc6"), 4096, 0,
        [stddev |-> "0.005"]),
  Layer("dropout", "ops.dropout", <<"dropout6">>, Ep("fc6"), Ep("dropout6"), 0, 0,
        [keep_prob |-> a.keep]),
  Layer("fc", "ops.fc", <<"fc7">>, Ep("dropout6"), Ep("fc7"), 4096, 0,
        [stddev |-> "0.005"]),
  Layer("dropout", "ops.dropout", <<"dropout7">>, Ep("fc7"), Var("net"), 0, 0,
        [keep_prob |-> a.keep]),
  Layer("fc", "ops.fc", <<"logits">>, Var("net"), Var("logits"), a.N, 0,
        [activation |-> "None", bias |-> "0.0", restore |-> a.restore_logits]),
  Assign(Var("logits"), Ep("logits")),
  Softmax(Var("logits"), Ep("predictions")),
  EndScope("old"), EndScope("old"), EndScope("old"), EndScope("old"),
  Constant(Ep("aux_logits")),
  Return(Var("logits")) >>

\* slim.repeat(inputs, n, slim.conv2d, num, [k, k], scope=name)
Repeat(name, src, dst, n, op, num, kernel) ==
  [n |-> n] @@ Layer("repeat", op, name, src, dst, num, kernel, NoKw)

\* slim.repeat names its i-th layer scope + '_' + str(i)
RepeatScope(scope, i) ==
  [conv1 |-> <<"conv1_1", "conv1_2", "conv1_3">>,
   conv2 |-> <<"conv2_1", "conv2_2", "conv2_3">>,
   conv3 |-> <<"conv3_1", "conv3_2", "conv3_3">>,
   conv4 |-> <<"conv4_1", "conv4_2", "conv4_3">>,
   conv5 |-> <<"conv5_1", "conv5_2", "conv5_3">>][scope][i]

\* if True: (line 214)
spatial_squeeze == TRUE

\* the inner scope without its weights_initializer
AlexnetV2FcScopeNoInitializer(a) ==
  ArgScope("slim", {"slim.conv2d"},
           [biases_initializer |-> [kind |-> "constant", value |-> "0.1"]])

\* lines 196-198
AlexnetV2FcScope(a) ==
  ArgScope("slim", {"slim.conv2d"},
           [weights_initializer |->
              [kind |-> "truncated_normal", mean |-> "0.0", stddev |-> "0.005",
               seed |-> a.seed],
            biases_initializer |-> [kind |-> "constant", value |-> "0.1"]])

\* fc6 without padding='VALID'
AlexnetV2Fc6SamePadding ==
  Layer("conv2d", "slim.conv2d", <<"fc6">>, Var("net"), Var("net"), 4096, 5, NoKw)

\* lines 199-200
AlexnetV2Fc6 ==
  Layer("conv2d", "slim.conv2d", <<"fc6">>, Var("net"), Var("net"), 4096, 5,
        [padding |-> "VALID"])

\* _alexnet_v2_arg_scope (lines 140-148), alexnet_v2 (224-238) and
\* _alexnet_v2 (180-220)
AlexnetV2Program(a) == <<
  ArgScope("slim", {"slim.conv2d", "slim.fully_connected"},
           [activation_fn |-> "relu",
            biases_initializer |-> [kind |-> "constant", value |-> "0.1"],
            weights_initializer |-> [kind |-> "xavier", seed |-> a.seed],
            weights_regularizer |-> [kind |-> "l2", scale |-> "0.0005"]]),
  ArgScope("slim", {"slim.conv2d"}, [padding |-> "SAME"]),
  ArgScope("slim", {"slim.max_pool2d"}, [padding |-> "VALID"]),
  ArgScopeReturn("slim"),
  ArgScopeReuse("slim"),
  ArgScope("slim", {"slim.conv2d", "slim.fully_connected", "slim.max_pool2d"},
           [outputs_collections |-> "alexnet_v2_end_points"]),
  Layer("conv2d", "slim.conv2d", <<"conv1">>, Var("inputs"), Var("net"), 64, 11,
        [stride |-> 4, padding |-> "VALID"]),
  Layer("max_pool", "slim.max_pool2d", <<"pool1">>, Var("net"), Var("net"), 0, 3,
        [stride |-> 2]),
  Layer("conv2d", "slim.conv2d", <<"conv2">>, Var("net"), Var("net"), 192, 5, NoKw),
  Layer("max_pool", "slim.max_pool2d", <<"pool2">>, Var("net"), Var("net"), 0, 3,
        [stride |-> 2]),
  Layer("conv2d", "slim.conv2d", <<"conv3">>, Var("net"), Var("net"), 384, 3, NoKw),
  Layer("conv2d", "slim.conv2d", <<"conv4">>, Var("net"), Var("net"), 384, 3, NoKw),
  Layer("conv2d", "slim.conv2d", <<"conv5">>, Var("net"), Var("net"), 256, 3, NoKw),
  Layer("max_pool", "slim.max_pool2d", <<"pool5">>, Var("net"), Var("net"), 0, 3,
        [stride |-> 2]),
  AlexnetV2FcScope(a),
  AlexnetV2Fc6,
  Layer("dropout", "slim.dropout", <<"dropout6">>, Var("net"), Var("net"), 0, 0,
        [keep_prob |-> a.keep, is_training |-> a.is_training]),
  Layer("conv2d", "slim.conv2d", <<"fc7">>, Var("net"), Var("net"), 4096, 1, NoKw),
  Layer("dropout", "slim.dropout", <<"dropout7">>, Var("net"), Var("net"), 0, 0,
        [keep_prob |-> a.keep, is_training |-> a.is_training]),
  Layer("conv2d", "slim.conv2d", <<"fc8">>, Var("net"), Var("net"), a.N, 1,
        [activation_fn |-> "None", normalizer_fn |-> "None",
         biases_initializer |-> [kind |-> "zeros"]]),
  EndScope("slim"),
  Convert >>
  \o (IF spatial_squeeze THEN <<Squeeze(Var("net"), Var("net"))>> ELSE <<>>)
  \o <<
  Assign(Var("net"), Ep("logits")),
  Softmax(Var("net"), Ep("predictions")),
  Constant(Ep("aux_logits")),
  Return(Var("net")) >>

\* repetitions of slim.repeat, lines 280-288 and 349-357
\* vgg_a left with the repetitions of vgg_16
VggARepeatsOfVgg16 == <<2, 2, 3, 3, 3>>

Vgg16Repeats == <<2, 2, 3, 3, 3>>

VggARepeats == <<1, 1, 2, 2, 2>>

\* _vgg_arg_scope (lines 241-254) and vgg_16 / _vgg_16, lines 256-322
Vgg16Program(a) == <<
  ArgScope("slim", {"slim.conv2d", "slim.fully_connected"},
           [activation_fn |-> "relu",
            weights_regularizer |-> [kind |-> "l2", scale |-> "0.0005"],
            weights_initializer |-> [kind |-> "xavier", seed |-> a.seed],
            biases_initializer |-> [kind |-> "zeros"]]),
  ArgScope("slim", {"slim.conv2d"}, [padding |-> "SAME"]),
  ArgScopeReturn("slim"),
  ArgScopeReuse("slim"),
  ArgScope("slim", {"slim.conv2d", "slim.fully_connected", "slim.max_pool2d"},
           [outputs_collections |-> "vgg_16_end_points"]),
  Repeat(<<"conv1">>, Var("inputs"), Var("net"), Vgg16Repeats[1], "slim.conv2d", 64, 3),
  Layer("max_pool", "slim.max_pool2d", <<"pool1">>, Var("net"), Var("net"), 0, 2, NoKw),
  Repeat(<<"conv2">>, Var("net"), Var("net"), Vgg16Repeats[2], "slim.conv2d", 128, 3),
  Layer("max_pool", "slim.max_pool2d", <<"pool2">>, Var("net"), Var("net"), 0, 2, NoKw),
  Repeat(<<"conv3">>, Var("net"), Var("net"), Vgg16Repeats[3], "slim.conv2d", 256, 3),
  Layer("max_pool", "slim.max_pool2d", <<"pool3">>, Var("net"), Var("net"), 0, 2, NoKw),
  Repeat(<<"conv4">>, Var("net"), Var("net"), Vgg16Repeats[4], "slim.conv2d", 512, 3),
  Layer("max_pool", "slim.max_pool2d", <<"pool4">>, Var("net"), Var("net"), 0, 2, NoKw),
  Repeat(<<"conv5">>, Var("net"), Var("net"), Vgg16Repeats[5], "slim.conv2d", 512, 3),
  Layer("max_pool", "slim.max_pool2d", <<"pool5">>, Var("net"), Var("net"), 0, 2, NoKw),
  Layer("flatten", "slim.flatten", <<"Flatten">>, Var("net"), Var("net"), 0, 0, NoKw),
  Layer("fc", "slim.fully_connected", <<"fc14">>, Var("net"), Var("net"), 4096, 0, NoKw),
  Layer("dropout", "slim.dropout", <<"dropout14">>, Var("net"), Var("net"), 0, 0,
        [keep_prob |-> a.keep, is_training |-> a.is_training]),
  Layer("fc", "slim.fully_connected", <<"fc15">>, Var("net"), Var("net"), 4096, 0, NoKw),
  Layer("dropout", "slim.dropout", <<"dropout15">>, Var("net"), Var("net"), 0, 0,
        [keep_prob |-> a.keep, is_training |-> a.is_training]),
  Layer("fc", "slim.fully_connected", <<"fc16">>, Var("net"), Var("logits"), a.N, 0,
        [activation_fn |-> "None"]),
  Convert,
  Assign(Var("logits"), Ep("logits")),
  Softmax(Var("logits"), Ep("predictions")),
  Constant(Ep("aux_logits")),
  Return(Var("logits")) >>

\* _vgg_arg_scope (lines 241-254) and vgg_a / _vgg_a, lines 325-391
VggAProgram(a) == <<
  ArgScope("slim", {"slim.conv2d", "slim.fully_connected"},
           [activation_fn |-> "relu",
            weights_regularizer |-> [kind |-> "l2", scale |-> "0.0005"],
            weights_initializer |-> [kind |-> "xavier", seed |-> a.seed],
            biases_initializer |-> [kind |-> "zeros"]]),
  ArgScope("slim", {"slim.conv2d"}, [padding |-> "SAME"]),
  ArgScopeReturn("slim"),
  ArgScopeReuse("slim"),
  ArgScope("slim", {"slim.conv2d", "slim.fully_connected", "slim.max_pool2d"},
           [outputs_collections |-> "vgg_a_end_points"]),
  Repeat(<<"conv1">>, Var("inputs"), Var("net"), VggARepeats[1], "slim.conv2d", 64, 3),
  Layer("max_pool", "slim.max_pool2d", <<"pool1">>, Var("net"), Var("net"), 0, 2, NoKw),
  Repeat(<<"conv2">>, Var("net"), Var("net"), VggARepeats[2], "slim.conv2d", 128, 3),
  Layer("max_pool", "slim.max_pool2d", <<"pool2">>, Var("net"), Var("net"), 0, 2, NoKw),
  Repeat(<<"conv3">>, Var("net"), Var("net"), VggARepeats[3], "slim.conv2d", 256, 3),
  Layer("max_pool", "slim.max_pool2d", <<"pool3">>, Var("net"), Var("net"), 0, 2, NoKw),
  Repeat(<<"conv4">>, Var("net"), Var("net"), VggARepeats[4], "slim.conv2d", 512, 3),
  Layer("max_pool", "slim.max_pool2d", <<"pool4">>, Var("net"), Var("net"), 0, 2, NoKw),
  Repeat(<<"conv5">>, Var("net"), Var("net"), VggARepeats[5], "slim.conv2d", 512, 3),
  Layer("max_pool", "slim.max_pool2d", <<"pool5">>, Var("net"), Var("net"), 0, 2, NoKw),
  Layer("flatten", "slim.flatten", <<"Flatten">>, Var("net"), Var("net"), 0, 0, NoKw),
  Layer("fc", "slim.fully_connected", <<"fc14">>, Var("net"), Var("net"), 4096, 0, NoKw),
  Layer("dropout", "slim.dropout", <<"dropout14">>, Var("net"), Var("net"), 0, 0,
        [keep_prob |-> a.keep, is_training |-> a.is_training]),
  Layer("fc", "slim.fully_connected", <<"fc15">>, Var("net"), Var("net"), 4096, 0, NoKw),
  Layer("dropout", "slim.dropout", <<"dropout15">>, Var("net"), Var("net"), 0, 0,
        [keep_prob |-> a.keep, is_training |-> a.is_training]),
  Layer("fc", "slim.fully_connected", <<"fc16">>, Var("net"), Var("logits"), a.N, 0,
        [activation_fn |-> "None"]),
  Convert,
  Assign(Var("logits"), Ep("logits")),
  Softmax(Var("logits"), Ep("predictions")),
  Constant(Ep("aux_logits")),
  Return(Var("logits")) >>

Program(b, a) ==
  CASE b = "alexnet" -> AlexnetProgram(a)
    [] b = "alexnet_v2" -> AlexnetV2Program(a)
    [] b = "vgg_16" -> Vgg16Program(a)
    [] b = "vgg_a" -> VggAProgram(a)

\* sc.name of the builder's variable scope (the scope argument's default);
\* alexnet opens a name scope only, its layers are named by their own scope.
ScopeName(b) == IF b = "alexnet" THEN <<>> ELSE <<b>>

----------------------------------------------------------------------------
(* Execution.                                                              *)

\* the statements of every call the model makes
Programs == [b \in Builders |-> [a \in ArgSpace |-> Program(b, a)]]

Code == Programs[builder][args]

Stmt == Code[pc]

At(kind) ==
  /\ phase = "building"
  /\ pc <= Len(Code)
  /\ Stmt.kind = kind

\* number of with-blocks of lib that are open after the first n statements
RECURSIVE Opened(_, _, _)
Opened(prog, n, lib) ==
  IF n = 0 THEN 0
  ELSE LET s == prog[n]
           d == Opened(prog, n - 1, lib)
       IN IF s.kind \in {"arg_scope", "arg_scope_reuse"} /\ s.lib = lib THEN d + 1
          ELSE IF s.kind = "end_scope" /\ s.lib = lib THEN d - 1
          ELSE IF s.kind = "arg_scope_return" /\ s.lib = lib THEN 0
          ELSE d

OpenHere(lib) == Opened(Code, pc - 1, lib)

Read(src) ==
  CASE src.var = "inputs" -> InputTensor(args)
    [] src.var = "net" -> net
    [] src.var = "logits" -> logits
    [] src.var = "ep" -> end_points[src.key]

Write(dst, t) ==
  /\ end_points' = IF dst.var = "ep" THEN (dst.key :> t) @@ end_points ELSE end_points
  /\ net' = IF dst.var = "net" THEN t ELSE net
  /\ logits' = IF dst.var = "logits" THEN t ELSE logits

\* An exception leaves the builder through every open with-block.
Raise ==
  /\ phase' = "failed"
  /\ oldStack' = Unwind(oldStack, OpenHere("old"))
  /\ slimStack' = Unwind(slimStack, OpenHere("slim"))
  /\ UNCHANGED <<builder, args, pc, captured, end_points, collection, layers,
                 net, logits, ret, stackAtCall>>

StackOf(lib) == IF lib = "old" THEN oldStack ELSE slimStack

\* ops.dropout returns its input when not training, slim.dropout the identity
\* of it; every other layer returns a new tensor named after the layer's scope.
LayerOut(s, in, cfg, id) ==
  CASE s.kind \in {"conv2d", "repeat"} -> Tensor(id, ConvShape(in.shape, s.num, s.kernel, cfg))
    [] s.kind = "max_pool" -> Tensor(id, PoolShape(in.shape, s.kernel, cfg))
    [] s.kind = "lrn" -> Tensor(id, in.shape)
    [] s.kind = "fc" -> Tensor(id, FcShape(in.shape, s.num))
    [] s.kind = "flatten" -> Tensor(id, FlattenShape(in.shape))
    [] s.kind = "dropout" ->
         IF cfg.is_training THEN Tensor(id, in.shape)
         ELSE IF s.lib = "old" THEN in
         ELSE [id |-> id, shape |-> in.shape, identity_of |-> in.id]

LayerRecord(s, name, in, cfg, out) ==
  [name |-> name, op |-> s.op, in |-> in, out |-> out,
   num |-> s.num, kernel |-> s.kernel, cfg |-> cfg, kw |-> s.kw]

Collected(coll, cfg, out) ==
  IF "outputs_collections" \in DOMAIN cfg /\ cfg.outputs_collections # "None"
  THEN Append(coll, out) ELSE coll

\* One layer call: conv2d, max_pool, lrn, fc, dropout or flatten.
ExecLayer ==
  LET s == Stmt
      cfg == Resolve(StackOf(s.lib), s.op, s.kw)
      in == Read(s.src)
      out == LayerOut(s, in, cfg, ScopeName(builder) \o s.name)
  IN IF ShapeOk(out.shape)
     THEN /\ Write(s.dst, out)
          /\ layers' = Append(layers, LayerRecord(s, s.name, in, cfg, out))
          /\ collection' = Collected(collection, cfg, out)
          /\ pc' = pc + 1
          /\ UNCHANGED <<phase, builder, args, oldStack, slimStack, captured,
                         ret, stackAtCall>>
     ELSE Raise

Conv2d == At("conv2d") /\ ExecLayer
MaxPool == At("max_pool") /\ ExecLayer
Lrn == At("lrn") /\ ExecLayer
Fc == At("fc") /\ ExecLayer
Dropout == At("dropout") /\ ExecLayer
Flatten == At("flatten") /\ ExecLayer

\* slim.repeat: the layer applied n times, each on the output of the last.
RepeatLayers(s, in, stack, prefix) ==
  LET cfg == Resolve(stack, s.op, s.kw)
      R[i \in 0..s.n] ==
        IF i = 0 THEN <<>>
        ELSE LET x == IF i = 1 THEN in ELSE R[i - 1][i - 1].out
                 name == s.name \o <<RepeatScope(s.name[1], i)>>
             IN Append(R[i - 1],
                       LayerRecord(s, name, x, cfg, LayerOut(s, x, cfg, prefix \o name)))
  IN R[s.n]

RECURSIVE CollectAll(_, _)
CollectAll(coll, ls) ==
  IF ls = <<>> THEN coll
  ELSE CollectAll(Collected(coll, Head(ls).cfg, Head(ls).out), Tail(ls))

RepeatStep ==
  /\ At("repeat")
  /\ LET s == Stmt
         new == RepeatLayers(s, Read(s.src), StackOf(s.lib), ScopeName(builder))
     IN IF \A i \in 1..Len(new) : ShapeOk(new[i].out.shape)
        THEN /\ Write(s.dst, new[Len(new)].out)
             /\ layers' = layers \o new
             /\ collection' = CollectAll(collection, new)
             /\ pc' = pc + 1
             /\ UNCHANGED <<phase, builder, args, oldStack, slimStack, captured,
                            ret, stackAtCall>>
        ELSE Raise

\* tf.concat([a, b], 3)
ConcatStep ==
  /\ At("concat")
  /\ LET s == Stmt
         x == Read(s.srcs[1])
         y == Read(s.srcs[2])
     IN Write(s.dst, [id |-> s.id, shape |-> ConcatShape(x.shape, y.shape, 3),
                      of |-> <<x.id, y.id>>])
  /\ pc' = pc + 1
  /\ UNCHANGED <<phase, builder, args, oldStack, slimStack, captured, collection,
                 layers, ret, stackAtCall>>

\* tf.squeeze(net, [1, 2]): an error unless both axes have size 1
SqueezeStep ==
  /\ At("squeeze")
  /\ LET s == Stmt
         in == Read(s.src)
     IN IF Len(in.shape) >= 3 /\ in.shape[2] = 1 /\ in.shape[3] = 1
        THEN /\ Write(s.dst, Tensor(<<"Squeeze">>, SqueezeShape(in.shape, {1, 2})))
             /\ pc' = pc + 1
             /\ UNCHANGED <<phase, builder, args, oldStack, slimStack, captured,
                            collection, layers, ret, stackAtCall>>
        ELSE Raise

\* slim.utils.convert_collection_to_dict: alias -> tensor
ConvertStep ==
  /\ At("convert")
  /\ end_points' =
       [k \in {collection[i].id : i \in DOMAIN collection} |->
          LET last == CHOOSE i \in DOMAIN collection :
                        /\ collection[i].id = k
                        /\ \A j \in DOMAIN collection : collection[j].id = k => j <= i
          IN collection[last]]
  /\ pc' = pc + 1
  /\ UNCHANGED <<phase, builder, args, oldStack, slimStack, captured, collection,
                 layers, net, logits, ret, stackAtCall>>

\* end_points[key] = variable
AssignStep ==
  /\ At("assign")
  /\ Write(Stmt.dst, Read(Stmt.src))
  /\ pc' = pc + 1
  /\ UNCHANGED <<phase, builder, args, oldStack, slimStack, captured, collection,
                 layers, ret, stackAtCall>>

\* the softmax taken of net instead of logits
SoftmaxOfNet ==
  /\ At("softmax")
  /\ Write(Stmt.dst, [id |-> <<"predictions">>, shape |-> net.shape,
                      softmax_of |-> net.id])
  /\ pc' = pc + 1
  /\ UNCHANGED <<phase, builder, args, oldStack, slimStack, captured, collection,
                 layers, ret, stackAtCall>>

\* end_points['predictions'] = tf.nn.softmax(logits, name='predictions')
SoftmaxStep ==
  /\ At("softmax")
  /\ LET in == Read(Stmt.src)
     IN Write(Stmt.dst, [id |-> <<"predictions">>, shape |-> in.shape,
                         softmax_of |-> in.id])
  /\ pc' = pc + 1
  /\ UNCHANGED <<phase, builder, args, oldStack, slimStack, captured, collection,
                 layers, ret, stackAtCall>>

\* end_points['aux_logits'] = tf.constant(0)
ConstantStep ==
  /\ At("constant")
  /\ Write(Stmt.dst, ConstantZero)
  /\ pc' = pc + 1
  /\ UNCHANGED <<phase, builder, args, oldStack, slimStack, captured, collection,
                 layers, ret, stackAtCall>>

\* with arg_scope([ops], **kw):
ArgScopeEnter ==
  /\ At("arg_scope")
  /\ IF Stmt.lib = "old"
     THEN /\ oldStack' = EnterScope(oldStack, Stmt.ops, Stmt.kw)
          /\ UNCHANGED slimStack
     ELSE /\ slimStack' = EnterScope(slimStack, Stmt.ops, Stmt.kw)
          /\ UNCHANGED oldStack
  /\ pc' = pc + 1
  /\ UNCHANGED <<phase, builder, args, captured, end_points, collection, layers,
                 net, logits, ret, stackAtCall>>

\* the scope returned without leaving the with-blocks
ArgScopeReturnNoExit ==
  /\ At("arg_scope_return")
  /\ captured' = CurrentScope(slimStack)
  /\ pc' = pc + 1
  /\ UNCHANGED <<phase, builder, args, oldStack, slimStack, end_points, collection,
                 layers, net, logits, ret, stackAtCall>>

\* "with ... as arg_sc: return arg_sc" inside the nested with-blocks of
\* _alexnet_v2_arg_scope and _vgg_arg_scope
ArgScopeReturnStep ==
  /\ At("arg_scope_return")
  /\ captured' = CurrentScope(slimStack)
  /\ slimStack' = Unwind(slimStack, OpenHere("slim"))
  /\ pc' = pc + 1
  /\ UNCHANGED <<phase, builder, args, oldStack, end_points, collection, layers,
                 net, logits, ret, stackAtCall>>

\* with slim.arg_scope(_alexnet_v2_arg_scope(seed=seed)):
ArgScopeReuseStep ==
  /\ At("arg_scope_reuse")
  /\ slimStack' = ReuseScope(slimStack, captured)
  /\ pc' = pc + 1
  /\ UNCHANGED <<phase, builder, args, oldStack, captured, end_points, collection,
                 layers, net, logits, ret, stackAtCall>>

\* end of a with-block
ArgScopeExit ==
  /\ At("end_scope")
  /\ IF Stmt.lib = "old"
     THEN /\ oldStack' = ExitScope(oldStack)
          /\ UNCHANGED slimStack
     ELSE /\ slimStack' = ExitScope(slimStack)
          /\ UNCHANGED oldStack
  /\ pc' = pc + 1
  /\ UNCHANGED <<phase, builder, args, captured, end_points, collection, layers,
                 net, logits, ret, stackAtCall>>

\* return logits, end_points (through the with-blocks still open)
ReturnStep ==
  /\ At("return")
  /\ ret' = Read(Stmt.src)
  /\ phase' = "done"
  /\ oldStack' = Unwind(oldStack, OpenHere("old"))
  /\ slimStack' = Unwind(slimStack, OpenHere("slim"))
  /\ UNCHANGED <<builder, args, pc, captured, end_points, collection, layers,
                 net, logits, stackAtCall>>

\* A call of one of the four public builders, each in a graph of its own:
\* the locals and the outputs collection start empty, the arg-scope stacks
\* are the process-wide ones and are left as the caller has them.
Call ==
  /\ phase # "building"
  /\ \E b \in Builders, a \in ArgSpace :
       /\ builder' = b
       /\ args' = a
  /\ phase' = "building"
  /\ pc' = 1
  /\ captured' = NoScope
  /\ end_points' = NoEndPoints
  /\ collection' = <<>>
  /\ layers' = <<>>
  /\ net' = NoTensor
  /\ logits' = NoTensor
  /\ ret' = NoTensor
  /\ stackAtCall' = <<oldStack, slimStack>>
  /\ UNCHANGED <<oldStack, slimStack>>

\* The caller's own arg scopes around a call, as in the module docstring
\* (lines 27-33).
CallerScopes == <<
  [ops |-> {"ops.conv2d", "ops.fc"}, kw |-> [weight_decay |-> "0.00004"]],
  [ops |-> {"ops.conv2d"}, kw |-> [stddev |-> "0.1", activation |-> "relu",
                                    batch_norm_params |-> "batch_norm_params"]],
  [ops |-> {"variables.variable"}, kw |-> [device |-> "/cpu:0"]] >>

CallerEnter ==
  /\ phase # "building"
  /\ Len(oldStack) < MaxCallerDepth
  /\ Len(oldStack) < Len(CallerScopes)
  /\ LET c == CallerScopes[Len(oldStack) + 1]
     IN oldStack' = EnterScope(oldStack, c.ops, c.kw)
  /\ UNCHANGED <<phase, builder, args, pc, slimStack, captured, end_points,
                 collection, layers, net, logits, ret, stackAtCall>>

CallerExit ==
  /\ phase # "building"
  /\ oldStack # <<>>
  /\ oldStack' = ExitScope(oldStack)
  /\ UNCHANGED <<phase, builder, args, pc, slimStack, captured, end_points,
                 collection, layers, net, logits, ret, stackAtCall>>

Init ==
  /\ phase = "idle"
  /\ builder = "alexnet"
  /\ args = [B |-> 1, N |-> 1, H |-> 224, is_training |-> TRUE,
             restore_logits |-> TRUE, seed |-> 1, keep |-> "0.8"]
  /\ pc = 1
  /\ oldStack = <<>>
  /\ slimStack = <<>>
  /\ captured = NoScope
  /\ end_points = NoEndPoints
  /\ collection = <<>>
  /\ layers = <<>>
  /\ net = NoTensor
  /\ logits = NoTensor
  /\ ret = NoTensor
  /\ stackAtCall = <<<<>>, <<>>>>

Next ==
  \/ Call
  \/ CallerEnter
  \/ CallerExit
  \/ ArgScopeEnter
  \/ ArgScopeReturnStep
  \/ ArgScopeReuseStep
  \/ ArgScopeExit
  \/ Conv2d
  \/ MaxPool
  \/ Lrn
  \/ Fc
  \/ Dropout
  \/ Flatten
  \/ RepeatStep
  \/ ConcatStep
  \/ SqueezeStep
  \/ ConvertStep
  \/ AssignStep
  \/ SoftmaxStep
  \/ ConstantStep
  \/ ReturnStep

Spec == Init /\ [][Next]_vars

----------------------------------------------------------------------------
(* Properties.                                                             *)

HasLayer(n) == \E i \in DOMAIN layers : layers[i].name = n
Named(n) == layers[CHOOSE i \in DOMAIN layers : layers[i].name = n]

\* C1: with a (B, 224, 224, 3) input no builder fails with a shape error, the
\* returned logits have rank 2 and shape (B, num_classes), and in alexnet_v2
\* the tensor that reaches the squeeze of axes 1 and 2 is 1x1 there.
LogitsShape ==
  args.H = 224 =>
    /\ phase # "failed"
    /\ (phase = "done" => Len(ret.shape) = 2 /\ ret.shape = <<args.B, args.N>>)
    /\ (At("squeeze") => net.shape[2] = 1 /\ net.shape[3] = 1)

LogitsShapeWitness ==
  /\ phase = "done"
  /\ builder = "alexnet_v2"
  /\ args.H = 224
  /\ args.B = MaxBatch
  /\ args.N = MaxClasses
  /\ ret.shape = <<MaxBatch, MaxClasses>>

\* C2: the returned end_points holds 'logits', 'predictions' and
\* 'aux_logits'; 'logits' is the returned tensor itself, 'predictions' is the
\* softmax of that tensor with the same shape, 'aux_logits' is the scalar
\* constant 0.
EndPointsKeys ==
  phase = "done" =>
    /\ {<<"logits">>, <<"predictions">>, <<"aux_logits">>} \subseteq DOMAIN end_points
    /\ end_points[<<"logits">>] = ret
    /\ end_points[<<"predictions">>].softmax_of = ret.id
    /\ end_points[<<"predictions">>].shape = ret.shape
    /\ end_points[<<"aux_logits">>].shape = <<>>
    /\ end_points[<<"aux_logits">>].value = 0

EndPointsKeysWitness ==
  /\ phase = "done"
  /\ builder = "vgg_16"
  /\ ~args.is_training
  /\ <<"predictions">> \in DOMAIN end_points
  /\ end_points[<<"predictions">>].softmax_of = <<"vgg_16", "fc16">>

\* C3: alexnet_v2 run on an input whose fc8 map is larger than 1x1 (fully
\* convolutional use) is accepted and returns rank-4 logits with the spatial
\* axes kept.
FullyConvolutionalMode ==
  (builder = "alexnet_v2" /\ phase \in {"done", "failed"} /\ args.H = 256) =>
    /\ phase = "done"
    /\ Len(ret.shape) = 4

\* whether the variables of a layer are restored from a checkpoint: the
\* restore argument of the inception.slim ops; tf.contrib.slim layers have no
\* such argument and their variables are always in the restored set.
Restored(L) == IF "restore" \in DOMAIN L.cfg THEN L.cfg.restore ELSE TRUE

\* C4: in every builder the final (logits) layer is restored exactly when
\* restore_logits is true.
RestoreLogitsDecides ==
  phase = "done" => Restored(layers[Len(layers)]) = args.restore_logits

\* C5: vgg_16 is conv groups (2,2,3,3,3) x (64,128,256,512,512) of 3x3
\* convolutions, a 2x2 max-pool after each group, flatten, fc 4096, dropout,
\* fc 4096, dropout, fc num_classes without activation; vgg_a is the same
\* sequence with groups (1,1,2,2,2), same layer configuration throughout.
VggFilters == <<64, 128, 256, 512, 512>>

VggGroup(g, n) ==
  [i \in 1..n |-> <<"slim.conv2d", <<"conv1", "conv2", "conv3", "conv4", "conv5">>[g],
                    VggFilters[g], 3>>]
  \o << <<"slim.max_pool2d", <<"pool1", "pool2", "pool3", "pool4", "pool5">>[g], 0, 2>> >>

VggExpected(reps, n) ==
  VggGroup(1, reps[1]) \o VggGroup(2, reps[2]) \o VggGroup(3, reps[3])
  \o VggGroup(4, reps[4]) \o VggGroup(5, reps[5])
  \o << <<"slim.flatten", "Flatten", 0, 0>>,
        <<"slim.fully_connected", "fc14", 4096, 0>>,
        <<"slim.dropout", "dropout14", 0, 0>>,
        <<"slim.fully_connected", "fc15", 4096, 0>>,
        <<"slim.dropout", "dropout15", 0, 0>>,
        <<"slim.fully_connected", "fc16", n, 0>> >>

VggWeightCfg(L, a) ==
  /\ L.cfg.activation_fn = IF L.name = <<"fc16">> THEN "None" ELSE "relu"
  /\ L.cfg.weights_initializer = [kind |-> "xavier", seed |-> a.seed]
  /\ L.cfg.weights_regularizer = [kind |-> "l2", scale |-> "0.0005"]
  /\ L.cfg.biases_initializer = [kind |-> "zeros"]
  /\ L.cfg.normalizer_fn = "None"
  /\ L.op = "slim.conv2d" => L.cfg.stride = 1 /\ L.cfg.padding = "SAME"

Tower(t) ==
  IF t = 1
  THEN {<<"conv1_1">>, <<"lrn1_1">>, <<"pool1_1">>, <<"conv2_1">>, <<"lrn2_1">>,
        <<"pool2_1">>, <<"conv3_1">>, <<"conv4_1">>, <<"conv5_1">>, <<"pool5_1">>}
  ELSE {<<"conv1_2">>, <<"lrn1_2">>, <<"pool1_2">>, <<"conv2_2">>, <<"lrn2_2">>,
        <<"pool2_2">>, <<"conv3_2">>, <<"conv4_2">>, <<"conv5_2">>, <<"pool5_2">>}

AlexnetShapes ==
  (phase = "done" /\ builder = "alexnet" /\ args.H = 224) =>
    LET B == args.B IN
    /\ Named(<<"pool1_1">>).out.shape = <<B, 27, 27, 48>>
    /\ Named(<<"pool1_2">>).out.shape = <<B, 27, 27, 48>>
    /\ end_points[<<"pool2">>].shape = <<B, 13, 13, 256>>
    /\ end_points[<<"pool2">>].of = << <<"pool2_1">>, <<"pool2_2">> >>
    /\ \A n \in {<<"conv3_1">>, <<"conv3_2">>, <<"conv4_1">>, <<"conv4_2">>} :
         Named(n).out.shape = <<B, 13, 13, 192>>
    /\ Named(<<"flatten">>).in.shape = <<B, 6, 6, 256>>
    /\ Named(<<"flatten">>).in.of = << <<"pool5_1">>, <<"pool5_2">> >>
    /\ Named(<<"fc6">>).in = Named(<<"flatten">>).out
    /\ Named(<<"fc6">>).in.shape = <<B, 9216>>
    /\ \A t \in {1, 2} : \A i \in DOMAIN layers :
         layers[i].name \in Tower(t) =>
           IF layers[i].name \in {<<"conv1_1">>, <<"conv1_2">>}
           THEN layers[i].in.id = <<"inputs">>
           ELSE IF layers[i].name \in {<<"conv3_1">>, <<"conv3_2">>}
           THEN layers[i].in = end_points[<<"pool2">>]
           ELSE layers[i].in.id \in Tower(t)

AlexnetShapesWitness ==
  /\ phase = "done"
  /\ builder = "alexnet"
  /\ args.H = 224
  /\ args.B = MaxBatch
  /\ HasLayer(<<"fc6">>)
  /\ Named(<<"fc6">>).in.shape = <<MaxBatch, 9216>>

\* C7: while a model is built every step only adds keys to end_points; a key
\* that is bound keeps its tensor.
EndPointsOnlyGrow ==
  [][phase = "building" =>
       \A k \in DOMAIN end_points :
         k \in DOMAIN end_points' /\ end_points'[k] = end_points[k]]_vars

\* C8: call-site keywords win over the innermost scope, that over the outer
\* scopes, those over the function defaults, and a scope reaches only the
\* operations it lists: the strides, biases, stddevs, paddings and
\* initializers of the alexnet and alexnet_v2 layers.
ArgScopePrecedence ==
  \A i \in DOMAIN layers :
    LET L == layers[i] IN
    /\ (builder = "alexnet" /\ L.op = "ops.conv2d") =>
         /\ L.cfg.stride = IF L.name \in {<<"conv1_1">>, <<"conv1_2">>} THEN 4 ELSE 1
         /\ L.cfg.bias = IF L.name \in {<<"conv1_1">>, <<"conv1_2">>,
                                        <<"conv3_1">>, <<"conv3_2">>}
                         THEN "0.0" ELSE "0.1"
         /\ L.cfg.stddev = "0.01"
    /\ (builder = "alexnet" /\ L.name \in {<<"fc6">>, <<"fc7">>}) =>
         L.cfg.stddev = "0.005"
    /\ (builder = "alexnet" /\ L.op = "ops.max_pool") =>
         L.cfg = [stride |-> 2, padding |-> "VALID"]
    /\ (builder = "alexnet_v2" /\ L.op = "slim.conv2d") =>
         /\ L.cfg.padding = IF L.name \in {<<"conv1">>, <<"fc6">>} THEN "VALID" ELSE "SAME"
         /\ L.cfg.weights_initializer =
              IF L.name \in {<<"fc6">>, <<"fc7">>, <<"fc8">>}
              THEN [kind |-> "truncated_normal", mean |-> "0.0", stddev |-> "0.005",
                    seed |-> args.seed]
              ELSE [kind |-> "xavier", seed |-> args.seed]
         /\ L.cfg.biases_initializer =
              IF L.name = <<"fc8">> THEN [kind |-> "zeros"]
              ELSE [kind |-> "constant", value |-> "0.1"]
         /\ L.cfg.activation_fn = IF L.name = <<"fc8">> THEN "None" ELSE "relu"
    /\ (builder = "alexnet_v2" /\ L.op = "slim.max_pool2d") =>
         DOMAIN L.cfg = {"stride", "padding", "outputs_collections"}

ArgScopePrecedenceWitness ==
  /\ phase = "done"
  /\ builder = "alexnet_v2"
  /\ args.seed = 2
  /\ HasLayer(<<"fc8">>)
  /\ Named(<<"fc8">>).cfg.biases_initializer = [kind |-> "zeros"]
  /\ Named(<<"fc7">>).cfg.weights_initializer.kind = "truncated_normal"

\* C9: both dropout layers of every builder get the caller's is_training and
\* dropout_keep_prob (identity when not training); alexnet hands is_training
\* over through the arg scope, the other three name it at the call, and in
\* those three no other layer takes is_training.
DropoutOps == {"ops.dropout", "slim.dropout"}

IsTrainingReachesDropout ==
  /\ \A i \in DOMAIN layers :
       LET L == layers[i] IN
       IF L.op \in DropoutOps
       THEN /\ L.cfg.is_training = args.is_training
            /\ L.cfg.keep_prob = args.keep
            /\ args.is_training =>
                 L.out.id # L.in.id /\ "identity_of" \notin DOMAIN L.out
            /\ ~args.is_training =>
                 \/ L.out = L.in
                 \/ "identity_of" \in DOMAIN L.out /\ L.out.identity_of = L.in.id
            /\ ("is_training" \in DOMAIN L.kw) = (builder # "alexnet")
       ELSE builder # "alexnet" => "is_training" \notin DOMAIN L.cfg
  /\ phase = "done" =>
       {layers[i].name : i \in {j \in DOMAIN layers : layers[j].op \in DropoutOps}}
         = IF builder \in {"alexnet", "alexnet_v2"}
           THEN {<<"dropout6">>, <<"dropout7">>}
           ELSE {<<"dropout14">>, <<"dropout15">>}

IsTrainingReachesDropoutWitness ==
  /\ phase = "done"
  /\ builder = "alexnet"
  /\ ~args.is_training
  /\ HasLayer(<<"dropout7">>)
  /\ Named(<<"dropout7">>).out = Named(<<"fc7">>).out

\* C10: when a builder call ends, by return or by exception, both arg-scope
\* stacks are what they were at the call; between calls the stacks hold the
\* caller's own scopes only, nothing a builder has set.
ModelKeys == {"is_training", "seed", "bias", "stride", "padding", "activation_fn",
              "biases_initializer", "weights_initializer", "weights_regularizer",
              "outputs_collections"}

NoModelDefaults(stack) ==
  \A i \in DOMAIN stack : \A op \in DOMAIN stack[i] :
    DOMAIN stack[i][op] \cap ModelKeys = {}

====
